---- MODULE Spec2Model ----
(***************************************************************************)
(* Model of rangecomp (src/src/lib.rs): the RangeComp trait, its relation  *)
(* predicates over boundary markers, the adapters binding the native range *)
(* shapes to boundaries, and the string-keyed dispatch `op`.               *)
(*                                                                         *)
(* A behaviour is one comparison: Init draws two interval values of the    *)
(* same concrete shape, then one method of the trait is called on them.    *)
(***************************************************************************)
EXTENDS Integers, Sequences, FiniteSets

VARIABLES left, right, status, invoked, name, target, ret

vars == <<left, right, status, invoked, name, target, ret>>

(* Largest value of the ordered domain T; T is modelled as 0..MaxVal. *)
MaxVal == 2

T == 0..MaxVal

----------------------------------------------------------------------------
(* The Boundary type of the `boundary` crate: an ordinal marker over T.    *)
(* Only the variants the adapters construct are modelled.                  *)

NegativeInfinity == [kind |-> "NegativeInfinity", v |-> 0]
Infinity == [kind |-> "Infinity", v |-> 0]
LT(x) == [kind |-> "LT", v |-> x]
EQ(x) == [kind |-> "EQ", v |-> x]

Boundary == {NegativeInfinity, Infinity} \cup {LT(x) : x \in T} \cup {EQ(x) : x \in T}

(* Boundary == : markers over equal values compare by kind as well. *)
eq(a, b) == a.kind = b.kind /\ a.v = b.v

(* Boundary < : NegativeInfinity below and Infinity above every finite     *)
(* marker; LT(x) strictly between every value below x and EQ(x).           *)
lt(a, b) ==
    CASE a.kind = "NegativeInfinity" -> b.kind # "NegativeInfinity"
      [] a.kind = "Infinity" -> FALSE
      [] b.kind = "NegativeInfinity" -> FALSE
      [] b.kind = "Infinity" -> TRUE
      [] OTHER -> \/ a.v < b.v
                  \/ a.v = b.v /\ a.kind = "LT" /\ b.kind = "EQ"

le(a, b) == lt(a, b) \/ eq(a, b)

gt(a, b) == lt(b, a)

----------------------------------------------------------------------------
(* Interval values: the six native range shapes and the boundary pair.     *)

Range(a, b) == [shape |-> "Range", start |-> a, end |-> b]
RangeInclusive(a, b) == [shape |-> "RangeInclusive", start |-> a, end |-> b]
RangeTo(b) == [shape |-> "RangeTo", start |-> 0, end |-> b]
RangeFrom(a) == [shape |-> "RangeFrom", start |-> a, end |-> 0]
RangeToInclusive(b) == [shape |-> "RangeToInclusive", start |-> 0, end |-> b]
RangeFull == [shape |-> "RangeFull", start |-> 0, end |-> 0]
BoundaryPair(s, e) == [shape |-> "BoundaryPair", start |-> s, end |-> e]

Shapes == {"Range", "RangeInclusive", "RangeTo", "RangeFrom",
           "RangeToInclusive", "RangeFull", "BoundaryPair"}

ValuesOf(sh) ==
    CASE sh = "Range" -> {Range(a, b) : a \in T, b \in T}
      [] sh = "RangeInclusive" -> {RangeInclusive(a, b) : a \in T, b \in T}
      [] sh = "RangeTo" -> {RangeTo(b) : b \in T}
      [] sh = "RangeFrom" -> {RangeFrom(a) : a \in T}
      [] sh = "RangeToInclusive" -> {RangeToInclusive(b) : b \in T}
      [] sh = "BoundaryPair" -> {BoundaryPair(s, e) : s \in Boundary, e \in Boundary}
      [] OTHER -> {RangeFull}

start_boundary(x) ==
    CASE x.shape = "BoundaryPair" -> x.start
      [] x.shape = "Range" -> EQ(x.start)
      [] x.shape = "RangeInclusive" -> EQ(x.start)
      [] x.shape = "RangeTo" -> NegativeInfinity
      [] x.shape = "RangeFrom" -> EQ(x.start)
      [] x.shape = "RangeToInclusive" -> NegativeInfinity
      [] OTHER -> NegativeInfinity

end_boundary(x) ==
    CASE x.shape = "BoundaryPair" -> x.end
      [] x.shape = "Range" -> LT(x.end)
      [] x.shape = "RangeInclusive" -> EQ(x.end)
      [] x.shape = "RangeTo" -> LT(x.end)
      [] x.shape = "RangeFrom" -> Infinity
      [] x.shape = "RangeToInclusive" -> EQ(x.end)
      [] OTHER -> Infinity

----------------------------------------------------------------------------
(* The relation predicates of the RangeComp trait.                         *)

intersects(l, r) ==
    LET ls == start_boundary(l)
        le_ == end_boundary(l)
        rs == start_boundary(r)
        re == end_boundary(r)
    IN le(ls, re) /\ le(le_, rs)

overlaps(l, r) ==
    LET ls == start_boundary(l)
        le_ == end_boundary(l)
        rs == start_boundary(r)
        re == end_boundary(r)
    IN lt(ls, re) /\ lt(rs, le_) /\ lt(le_, re)

before(l, r) ==
    LET le_ == end_boundary(l)
        rs == start_boundary(r)
    IN lt(le_, rs)

meets(l, r) ==
    LET le_ == end_boundary(l)
        rs == start_boundary(r)
    IN eq(le_, rs)

starts(l, r) ==
    LET ls == start_boundary(l)
        le_ == end_boundary(l)
        rs == start_boundary(r)
        re == end_boundary(r)
    IN eq(ls, rs) /\ lt(le_, re)

during(l, r) ==
    LET ls == start_boundary(l)
        le_ == end_boundary(l)
        rs == start_boundary(r)
        re == end_boundary(r)
    IN gt(ls, rs) /\ lt(le_, re)

(* finishes with a strict comparison of the ends. *)
finishes_strict(l, r) ==
    LET ls == start_boundary(l)
        le_ == end_boundary(l)
        rs == start_boundary(r)
        re == end_boundary(r)
    IN gt(ls, rs) /\ lt(le_, re)

finishes(l, r) ==
    LET ls == start_boundary(l)
        le_ == end_boundary(l)
        rs == start_boundary(r)
        re == end_boundary(r)
    IN gt(ls, rs) /\ eq(le_, re)

equals(l, r) ==
    LET ls == start_boundary(l)
        le_ == end_boundary(l)
        rs == start_boundary(r)
        re == end_boundary(r)
    IN eq(ls, rs) /\ eq(le_, re)

overlappedby(l, r) == overlaps(r, l)

disjoint(l, r) == ~intersects(l, r)

(* after without the swap of its arguments. *)
after_noswap(l, r) == before(l, r)

after(l, r) == before(r, l)

metby(l, r) == meets(r, l)

(* startedby without the swap of its arguments. *)
startedby_noswap(l, r) == starts(l, r)

startedby(l, r) == starts(r, l)

rcontains(l, r) == during(r, l)

finishedby(l, r) == finishes(r, l)

----------------------------------------------------------------------------
(* Relation names are sequences of characters.                             *)

UpperCase == <<"A", "B", "C", "D", "E", "F", "G", "H", "I", "J", "K", "L", "M", "N", "O", "P", "Q", "R", "S", "T", "U", "V", "W", "X", "Y", "Z">>
LowerCase == <<"a", "b", "c", "d", "e", "f", "g", "h", "i", "j", "k", "l", "m", "n", "o", "p", "q", "r", "s", "t", "u", "v", "w", "x", "y", "z">>

(* The lower-case letter of each upper-case ASCII letter. *)
LowerOf == [c \in {UpperCase[i] : i \in 1..Len(UpperCase)} |->
              LowerCase[CHOOSE i \in 1..Len(UpperCase) : UpperCase[i] = c]]

(* char::to_lowercase on the ASCII letters; other characters are kept. *)
to_lowercase_char(c) == IF c \in DOMAIN LowerOf THEN LowerOf[c] ELSE c

(* str::to_lowercase *)
to_lowercase(s) == [i \in 1..Len(s) |-> to_lowercase_char(s[i])]

(* s.rsplit('_').next(): the text after the last underscore, the whole     *)
(* text when there is none; never None.                                    *)
rsplit_next(s) ==
    LET us == {i \in 1..Len(s) : s[i] = "_"}
        last == IF us = {} THEN 0 ELSE CHOOSE i \in us : \A j \in us : j <= i
    IN SubSeq(s, last + 1, Len(s))

kw_intersects == <<"i", "n", "t", "e", "r", "s", "e", "c", "t", "s">>
kw_overlaps == <<"o", "v", "e", "r", "l", "a", "p", "s">>
kw_anyinteracts == <<"a", "n", "y", "i", "n", "t", "e", "r", "a", "c", "t", "s">>
kw_disjoint == <<"d", "i", "s", "j", "o", "i", "n", "t">>
kw_before == <<"b", "e", "f", "o", "r", "e">>
kw_after == <<"a", "f", "t", "e", "r">>
(* The keyword of meets spelled correctly. *)
kw_meeets_respelled == <<"m", "e", "e", "t", "s">>

kw_meeets == <<"m", "e", "e", "e", "t", "s">>
kw_metby == <<"m", "e", "t", "b", "y">>
kw_starts == <<"s", "t", "a", "r", "t", "s">>
kw_startedby == <<"s", "t", "a", "r", "t", "e", "d", "b", "y">>
kw_during == <<"d", "u", "r", "i", "n", "g">>
kw_contains == <<"c", "o", "n", "t", "a", "i", "n", "s">>
kw_finishes == <<"f", "i", "n", "i", "s", "h", "e", "s">>
kw_finishedby == <<"f", "i", "n", "i", "s", "h", "e", "d", "b", "y">>
kw_equals == <<"e", "q", "u", "a", "l", "s">>

Returned(m, b) == [status |-> "returned", target |-> m, ret |-> b]
(* The default arm yielding false instead of failing. *)
Panicked_returns_false == [status |-> "returned", target |-> "none", ret |-> FALSE]

Panicked == [status |-> "panicked", target |-> "none", ret |-> FALSE]

(* The match of RangeComp::op on the trailing token: the outcome, with the *)
(* method the matched arm calls; the default arm is unimplemented!().      *)
dispatch(l, r, tok) ==
       CASE tok = kw_intersects -> Returned("intersects", intersects(l, r))
         [] tok = kw_overlaps -> Returned("overlaps", overlaps(l, r))
         [] tok = kw_anyinteracts -> Returned("intersects", intersects(l, r))
         [] tok = kw_disjoint -> Returned("disjoint", disjoint(l, r))
         [] tok = kw_before -> Returned("before", before(l, r))
         [] tok = kw_after -> Returned("after", after(l, r))
         [] tok = kw_meeets -> Returned("meets", meets(l, r))
         [] tok = kw_metby -> Returned("metby", metby(l, r))
         [] tok = kw_starts -> Returned("starts", starts(l, r))
         [] tok = kw_startedby -> Returned("startedby", startedby(l, r))
         [] tok = kw_during -> Returned("during", during(l, r))
         [] tok = kw_contains -> Returned("rcontains", rcontains(l, r))
         [] tok = kw_finishes -> Returned("finishes", finishes(l, r))
         [] tok = kw_finishedby -> Returned("finishedby", finishedby(l, r))
         [] tok = kw_equals -> Returned("equals", equals(l, r))
         [] OTHER -> Panicked

(* op matching on the text as given, without lower-casing it. *)
op_keeps_case(l, r, n) == dispatch(l, r, rsplit_next(n))

(* RangeComp::op *)
op(l, r, n) ==
    LET lower == to_lowercase(n)
        tok == rsplit_next(lower)
    IN dispatch(l, r, tok)

----------------------------------------------------------------------------
(* The names a caller may pass to op: every keyword of the table and some  *)
(* texts that are not in it, each bare in lower case, bare capitalized,    *)
(* in lower case behind "range_" and in upper case behind "A_before_".     *)

Keywords == {kw_intersects, kw_overlaps, kw_anyinteracts, kw_disjoint,
             kw_before, kw_after, kw_meeets, kw_metby, kw_starts,
             kw_startedby, kw_during, kw_contains, kw_finishes,
             kw_finishedby, kw_equals}

txt_meets == <<"m", "e", "e", "t", "s">>
txt_bogus == <<"b", "o", "g", "u", "s">>
txt_overlappedby == <<"o", "v", "e", "r", "l", "a", "p", "p", "e", "d", "b", "y">>

Unknown == {txt_meets, txt_bogus, txt_overlappedby, <<>>}

UpperOf == [c \in {LowerCase[i] : i \in 1..Len(LowerCase)} |->
              UpperCase[CHOOSE i \in 1..Len(LowerCase) : LowerCase[i] = c]]

to_uppercase_char(c) == IF c \in DOMAIN UpperOf THEN UpperOf[c] ELSE c

AllCaps(s) == [i \in 1..Len(s) |-> to_uppercase_char(s[i])]

Capitalized(s) == [i \in 1..Len(s) |-> IF i = 1 THEN to_uppercase_char(s[i]) ELSE s[i]]

txt_range_ == <<"r", "a", "n", "g", "e", "_">>
txt_A_before_ == <<"A", "_", "b", "e", "f", "o", "r", "e", "_">>

Spellings(t) == {t, Capitalized(t), txt_range_ \o t, txt_A_before_ \o AllCaps(t)}

Names == UNION {Spellings(t) : t \in Keywords \cup Unknown}

Init ==
    /\ \E sh \in Shapes : left \in ValuesOf(sh) /\ right \in ValuesOf(sh)
    /\ status = "ready"
    /\ invoked = "none"
    /\ name = <<>>
    /\ target = "none"
    /\ ret = FALSE

Returns(m, b) ==
    /\ status = "ready"
    /\ status' = "returned"
    /\ invoked' = m
    /\ ret' = b
    /\ UNCHANGED <<left, right, name, target>>

CallIntersects == Returns("intersects", intersects(left, right))

CallOverlaps == Returns("overlaps", overlaps(left, right))

CallBefore == Returns("before", before(left, right))

CallMeets == Returns("meets", meets(left, right))

CallStarts == Returns("starts", starts(left, right))

CallDuring == Returns("during", during(left, right))

CallFinishes == Returns("finishes", finishes(left, right))

CallEquals == Returns("equals", equals(left, right))

CallOverlappedby == Returns("overlappedby", overlappedby(left, right))

CallDisjoint == Returns("disjoint", disjoint(left, right))

CallAfter == Returns("after", after(left, right))

CallMetby == Returns("metby", metby(left, right))

CallStartedby == Returns("startedby", startedby(left, right))

CallRcontains == Returns("rcontains", rcontains(left, right))

CallFinishedby == Returns("finishedby", finishedby(left, right))

(* left.op(right, n) for a name n supplied by the caller. *)
CallOp ==
    /\ status = "ready"
    /\ \E n \in Names :
         LET out == op(left, right, n)
         IN /\ name' = n
            /\ status' = out.status
            /\ target' = out.target
            /\ ret' = out.ret
    /\ invoked' = "op"
    /\ UNCHANGED <<left, right>>

Next ==
    \/ CallIntersects
    \/ CallOverlaps
    \/ CallBefore
    \/ CallMeets
    \/ CallStarts
    \/ CallDuring
    \/ CallFinishes
    \/ CallEquals
    \/ CallOverlappedby
    \/ CallDisjoint
    \/ CallAfter
    \/ CallMetby
    \/ CallStartedby
    \/ CallRcontains
    \/ CallFinishedby
    \/ CallOp

Spec == Init /\ [][Next]_vars
----------------------------------------------------------------------------
(* Vocabulary of the properties.                                           *)

WellFormed(x) == le(start_boundary(x), end_boundary(x))

Thirteen == {"before", "after", "meets", "metby", "starts", "startedby",
             "during", "rcontains", "finishes", "finishedby", "overlaps",
             "overlappedby", "equals"}

Holds(m, l, r) ==
    CASE m = "intersects" -> intersects(l, r)
      [] m = "disjoint" -> disjoint(l, r)
      [] m = "before" -> before(l, r)
      [] m = "after" -> after(l, r)
      [] m = "meets" -> meets(l, r)
      [] m = "metby" -> metby(l, r)
      [] m = "starts" -> starts(l, r)
      [] m = "startedby" -> startedby(l, r)
      [] m = "during" -> during(l, r)
      [] m = "rcontains" -> rcontains(l, r)
      [] m = "finishes" -> finishes(l, r)
      [] m = "finishedby" -> finishedby(l, r)
      [] m = "overlaps" -> overlaps(l, r)
      [] m = "overlappedby" -> overlappedby(l, r)
      [] OTHER -> equals(l, r)

Holding(l, r) == {m \in Thirteen : Holds(m, l, r)}

(* v is a point of the interval x. *)
Member(v, x) == le(start_boundary(x), EQ(v)) /\ le(EQ(v), end_boundary(x))

Shared(l, r) == {v \in T : Member(v, l) /\ Member(v, r)}

BothWellFormed == WellFormed(left) /\ WellFormed(right)

(* The call of method m on (left, right) has returned. *)
Called(m) == status = "returned" /\ invoked = m

(* The trailing token op matches on. *)
Token(n) == rsplit_next(to_lowercase(n))

(* left = [a, b) and right = [b, c) with a < b < c. *)
Adjacent ==
    /\ left.shape = "Range" /\ right.shape = "Range"
    /\ left.start < left.end
    /\ left.end = right.start
    /\ right.start < right.end

(* left = [a, c) and right = [a, b) with a < b < c. *)
SameStartShorter ==
    /\ left.shape = "Range" /\ right.shape = "Range"
    /\ left.start = right.start
    /\ right.start < right.end
    /\ right.end < left.end

----------------------------------------------------------------------------
(* C1: for every pair of well-formed intervals exactly one of the thirteen *)
(* relations is true.                                                      *)
C1_Partition == BothWellFormed => Cardinality(Holding(left, right)) = 1

(* C2: every reciprocal relation of (L, R) equals the base relation of     *)
(* (R, L), for all pairs, well-formed or not, and a returned call of a     *)
(* reciprocal yields that value.                                           *)
C2_Reciprocal ==
    /\ starts(left, right) = startedby(right, left)
    /\ meets(left, right) = metby(right, left)
    /\ finishes(left, right) = finishedby(right, left)
    /\ after(left, right) = before(right, left)
    /\ rcontains(left, right) = during(right, left)
    /\ overlaps(left, right) = overlappedby(right, left)
    /\ Called("startedby") => ret = starts(right, left)
    /\ Called("metby") => ret = meets(right, left)
    /\ Called("finishedby") => ret = finishes(right, left)
    /\ Called("after") => ret = before(right, left)
    /\ Called("rcontains") => ret = during(right, left)
    /\ Called("overlappedby") => ret = overlaps(right, left)

C2_Witness ==
    /\ Called("after") /\ ret = TRUE
    /\ ~WellFormed(left)
    /\ ~before(left, right)

(* C3: for well-formed intervals intersects is true exactly when some      *)
(* value of the domain lies in both, and disjoint exactly when none does.  *)
C3_SharePoint ==
    BothWellFormed =>
        /\ intersects(left, right) <=> Shared(left, right) # {}
        /\ disjoint(left, right) <=> Shared(left, right) = {}

(* C4: [a, b) meets [b, c) and [b, c) is met by [a, b), for a < b < c.     *)
C4_AdjacentMeet == Adjacent => meets(left, right) /\ metby(right, left)

(* C5: a name whose lower-cased text after the last underscore is a        *)
(* keyword of the table (meeets aside) dispatches to the keyword's         *)
(* relation and returns its value, whatever the case and the prefix.       *)
C5_Relation ==
    [t \in {kw_intersects, kw_overlaps, kw_anyinteracts, kw_disjoint,
             kw_before, kw_after, kw_metby, kw_starts, kw_startedby,
             kw_during, kw_contains, kw_finishes, kw_finishedby, kw_equals} |->
        CASE t = kw_intersects -> "intersects"
          [] t = kw_overlaps -> "overlaps"
          [] t = kw_anyinteracts -> "intersects"
          [] t = kw_disjoint -> "disjoint"
          [] t = kw_before -> "before"
          [] t = kw_after -> "after"
          [] t = kw_metby -> "metby"
          [] t = kw_starts -> "starts"
          [] t = kw_startedby -> "startedby"
          [] t = kw_during -> "during"
          [] t = kw_contains -> "rcontains"
          [] t = kw_finishes -> "finishes"
          [] t = kw_finishedby -> "finishedby"
          [] OTHER -> "equals"]

txt_Intersects == <<"I", "n", "t", "e", "r", "s", "e", "c", "t", "s">>
txt_range_intersects == <<"r", "a", "n", "g", "e", "_", "i", "n", "t", "e", "r", "s", "e", "c", "t", "s">>

C5_Dispatch ==
    /\ invoked = "op" =>
          LET tok == Token(name)
          IN tok \in DOMAIN C5_Relation =>
                /\ status = "returned"
                /\ target = C5_Relation[tok]
                /\ ret = Holds(C5_Relation[tok], left, right)
    /\ Called("intersects") =>
          /\ op(left, right, txt_Intersects) = Returned("intersects", ret)
          /\ op(left, right, txt_range_intersects) = Returned("intersects", ret)

C5_Witness ==
    /\ invoked = "op" /\ status = "returned" /\ ret = TRUE
    /\ Token(name) = kw_contains
    /\ name # kw_contains
    /\ Len(name) > Len(kw_contains)
    /\ to_lowercase(name) # name

(* C6: a name whose lower-cased trailing token is not in the table makes   *)
(* op fail fatally: no boolean is returned and no relation is called.      *)
C6_UnknownFatal ==
    (invoked = "op" /\ Token(name) \notin Keywords) =>
        status = "panicked" /\ target = "none"

C6_Witness ==
    /\ invoked = "op" /\ status = "panicked"
    /\ name = txt_range_

(* C7: [a, c) is started by [a, b) and [a, b) starts [a, c), for           *)
(* a < b < c.                                                              *)
C7_StartedBy ==
    SameStartShorter =>
        /\ startedby(left, right)
        /\ starts(right, left)
        /\ Called("startedby") => ret = TRUE

C7_Witness == SameStartShorter /\ Called("startedby") /\ ret = TRUE

(* C8: for well-formed intervals overlaps is true exactly when             *)
(* ls < rs, rs < le and le < re, so that it excludes starts, during and    *)
(* before.                                                                 *)
C8_Overlaps ==
    BothWellFormed =>
        /\ overlaps(left, right) <=>
              /\ lt(start_boundary(left), start_boundary(right))
              /\ lt(start_boundary(right), end_boundary(left))
              /\ lt(end_boundary(left), end_boundary(right))
        /\ overlaps(left, right) =>
              /\ ~starts(left, right)
              /\ ~during(left, right)
              /\ ~before(left, right)

(* C9: op reaches meets under the keyword "meeets" only; "meets", in any   *)
(* case and behind any prefix, fails fatally.                              *)
txt_meeets == <<"m", "e", "e", "e", "t", "s">>

C9_Misspelled ==
    /\ Called("meets") => op(left, right, txt_meeets) = Returned("meets", ret)
    /\ invoked = "op" =>
          LET tok == Token(name)
          IN /\ tok = txt_meeets =>
                  status = "returned" /\ target = "meets" /\ ret = meets(left, right)
             /\ tok = txt_meets =>
                  status = "panicked" /\ target = "none"

C9_Witness ==
    /\ invoked = "op" /\ status = "panicked"
    /\ Token(name) = txt_meets
    /\ name # txt_meets
    /\ meets(left, right)

(* C10: for every pair of well-formed intervals at least one of the        *)
(* thirteen relations is true.                                             *)
C10_Exhaustive ==
    BothWellFormed =>
        \/ before(left, right) \/ after(left, right)
        \/ meets(left, right) \/ metby(left, right)
        \/ starts(left, right) \/ startedby(left, right)
        \/ during(left, right) \/ rcontains(left, right)
        \/ finishes(left, right) \/ finishedby(left, right)
        \/ overlaps(left, right) \/ overlappedby(left, right)
        \/ equals(left, right)

C10_Witness ==
    /\ BothWellFormed
    /\ Called("finishes") /\ ret = TRUE
    /\ Holding(left, right) = {"finishes"}
====
